---- MODULE Spec2Model ----
(***************************************************************************)
(* Model of the ray tracer's progressive render pipeline (src/src/main.rs, *)
(* src/src/render.rs) and of the pure algorithms it drives: sphere and     *)
(* aggregate intersection (src/src/sphere.rs), the recursive integrator    *)
(* ray_color and the pixel sampling of the render loop (src/src/main.rs).  *)
(***************************************************************************)
EXTENDS Integers, Sequences, FiniteSets, TLC

\* ------------------------------------------------------------------------
\* Bounds of the model.  The program renders WIDTH x HEIGHT = 1200 x 675;
\* the model renders a small image with the same loop structure.
\* ------------------------------------------------------------------------
WIDTH == 2
HEIGHT == 4

\* u32::MAX, the value 0u32 - 1 wraps to in a release build.  Values of type
\* u32 are held by their representatives modulo 2^32 in the signed 32-bit
\* range of TLC's integers: 4294967295 is held as -1, and +, -, *
\* on representatives agree with the wrapping u32 operations.
U32Max == -1

\* Initial content of every pixel of the triple buffer: vec![0; WIDTH].
BufBlank == 0
\* Initial content of every pixel of the consumer's framebuffer: vec![255; FLAT_SIZE].
FrameBlank == 255

\* ------------------------------------------------------------------------
\* State
\* ------------------------------------------------------------------------
VARIABLES
    \* render thread
    ppc,            \* position of the render thread
    j,              \* row index of the for loop (HEIGHT-1 down to 0)
    row,            \* the row being rendered: pixel_data.chunks_mut(WIDTH)[j]
    file,           \* lines written to image.ppm
    \* triple buffer
    bufs,           \* the three buffers, indexed 0..2
    input_idx,      \* buffer owned by the producer
    back_idx,       \* buffer shared through the atomic back-buffer word
    output_idx,     \* buffer owned by the consumer
    dirty,          \* back buffer holds an unread publication
    \* mpsc channel
    chan,           \* messages in flight
    \* display thread (main)
    cpc,            \* position of the display loop
    counter,        \* u32 row counter
    render_data,    \* framebuffer, FLAT_SIZE pixels
    \* history (not program state)
    published,      \* rows published so far, in order
    sent,           \* every message ever enqueued, in order
    observed,       \* rows read from the output buffer, in order
    placed,         \* framebuffer row each observed row was copied to
    \* Sphere::hit (one call)
    spc,            \* position inside Sphere::hit
    sphere,         \* self
    s_ray,          \* r
    s_t_min,        \* t_min
    s_t_max,        \* t_max
    root,           \* the local variable root
    s_result,       \* the value returned
    \* HittableList::hit (one call)
    hpc,            \* position inside HittableList::hit
    objects,        \* self.objects
    h_ray,          \* r
    h_t_min,        \* t_min
    h_t_max,        \* t_max
    hidx,           \* position of the iterator over self.objects
    closest_so_far, \* the local variable closest_so_far
    hit,            \* the local variable hit
    passed,         \* history: the bound passed to each child so far
    \* ray_color (one top-level call and its recursion)
    rpc,            \* "call": a call is entered; "return": it has returned
    depth0,         \* depth of the top-level call
    depth,          \* depth of the call being executed
    frames,         \* suspended callers, outermost first
    value,          \* the value just returned
    intersections,  \* history: number of world.hit calls made
    \* pixel sampling of the render loop
    xpc,            \* position inside the sampling loops
    px_j,           \* j of the for loop over rows
    px_i,           \* i of the par_iter over the row
    sample,         \* samples taken for pixel (px_i, px_j)
    u,              \* first argument of the last camera.get_ray call
    v,              \* second argument of the last camera.get_ray call
    \* set_color (one call)
    kpc,            \* position inside set_color
    color,          \* the argument color, in units of 1/ColorDen
    samples,        \* the argument samples_per_pixel
    ur,             \* the local variable ur
    ug,             \* the local variable ug
    ub,             \* the local variable ub
    word,           \* the value returned
    \* Vec3 operations (one evaluation of each on a pair of vectors)
    vpc,            \* which operations have been evaluated
    va,             \* first operand
    vb,             \* second operand
    vout            \* the values the operations returned

pipeVars == <<ppc, j, row, file, bufs, input_idx, back_idx, output_idx, dirty,
              chan, cpc, counter, render_data, published, sent, observed, placed>>

sphereVars == <<spc, sphere, s_ray, s_t_min, s_t_max, root, s_result>>

listVars == <<hpc, objects, h_ray, h_t_min, h_t_max, hidx, closest_so_far, hit,
              passed>>

rayVars == <<rpc, depth0, depth, frames, value, intersections>>

pixelVars == <<xpc, px_j, px_i, sample, u, v>>

colorVars == <<kpc, color, samples, ur, ug, ub, word>>

vecVars == <<vpc, va, vb, vout>>

nonPipeVars == <<sphereVars, listVars, rayVars, pixelVars, colorVars, vecVars>>

vars == <<pipeVars, sphereVars, listVars, rayVars, pixelVars, colorVars, vecVars>>

\* ------------------------------------------------------------------------
\* Helpers of the pipeline
\* ------------------------------------------------------------------------
\* The packed colour of pixel i of row jj.  Distinct for every pixel, and
\* distinct from both blanks.
Pixel(jj, i) == 1 + jj * WIDTH + i

\* row.par_iter_mut().enumerate().for_each(...): every pixel of row jj.
RenderedRow(jj) == [i \in 1..WIDTH |-> Pixel(jj, i - 1)]

\* format!("P3\n{} {}\n255\n", WIDTH, HEIGHT)
Header == <<"P3", WIDTH, HEIGHT, 255>>

\* Position of a row in production order (0 = first produced = top row).
ProductionIndex(jj) == HEIGHT - 1 - jj

\* std::sync::mpsc::channel(): unbounded, send never blocks.
CanSendBounded(q) == Len(q) < 1
CanSend(q) == TRUE

\* Input::publish: swap the input buffer with the back buffer and set dirty,
\* whether or not the previous publication was read.
PublishKeepUnread(tb) == IF tb.dirty THEN tb
                         ELSE [input |-> tb.back, back |-> tb.input,
                               output |-> tb.output, dirty |-> TRUE]
Publish(tb) == [input |-> tb.back, back |-> tb.input, output |-> tb.output,
                dirty |-> TRUE]

\* Output::update: if dirty, swap the output buffer with the back buffer and
\* clear dirty; returns whether it did.
UpdateAlways(tb) == [tb |-> [input |-> tb.input, back |-> tb.output,
                             output |-> tb.back, dirty |-> FALSE],
                     updated |-> TRUE]
Update(tb) == IF tb.dirty
              THEN [tb |-> [input |-> tb.input, back |-> tb.output,
                            output |-> tb.back, dirty |-> FALSE],
                    updated |-> TRUE]
              ELSE [tb |-> tb, updated |-> FALSE]

\* The for loop over chunks_mut(WIDTH).enumerate().rev() ends after j = 0.
LastRowOffByOne(jj) == jj <= 1
LastRow(jj) == jj = 0

TB == [input |-> input_idx, back |-> back_idx, output |-> output_idx,
       dirty |-> dirty]

SetTB(tb) == /\ input_idx' = tb.input
             /\ back_idx' = tb.back
             /\ output_idx' = tb.output
             /\ dirty' = tb.dirty

\* The process is alive until main returns or panics.
Alive == cpc \notin {"exited", "panicked"}

\* ------------------------------------------------------------------------
\* Initial state: after TripleBuffer::new(&pixel_data).split(), channel()
\* and thread::spawn.
\* ------------------------------------------------------------------------
PipeInit ==
    /\ ppc = "create"
    /\ j = HEIGHT - 1
    /\ row = <<>>
    /\ file = <<>>
    /\ bufs = [b \in 0..2 |-> [i \in 1..WIDTH |-> BufBlank]]
    /\ input_idx = 0
    /\ back_idx = 1
    /\ output_idx = 2
    /\ dirty = FALSE
    /\ chan = <<>>
    /\ cpc = "loop"
    /\ counter = HEIGHT - 1
    /\ render_data = [k \in 0..(WIDTH * HEIGHT - 1) |-> FrameBlank]
    /\ published = <<>>
    /\ sent = <<>>
    /\ observed = <<>>
    /\ placed = <<>>

\* ------------------------------------------------------------------------
\* Render thread
\* ------------------------------------------------------------------------
\* File::create + write_all of the header.
CreateFile ==
    /\ Alive /\ ppc = "create"
    /\ file' = <<Header>>
    /\ ppc' = "render"
    /\ UNCHANGED <<j, row, bufs, input_idx, back_idx, output_idx, dirty, chan,
                   cpc, counter, render_data, published, sent, observed, placed>>
    /\ UNCHANGED nonPipeVars

\* One iteration of the for loop, up to the end of the par_iter: row j is
\* computed into pixel_data.  Nothing is written to the file.
RenderRow ==
    /\ Alive /\ ppc = "render"
    /\ row' = RenderedRow(j)
    /\ ppc' = "clear"
    /\ UNCHANGED <<j, file, bufs, input_idx, back_idx, output_idx, dirty, chan,
                   cpc, counter, render_data, published, sent, observed, placed>>
    /\ UNCHANGED nonPipeVars

\* input.clear()
ClearInput ==
    /\ Alive /\ ppc = "clear"
    /\ bufs' = [bufs EXCEPT ![input_idx] = <<>>]
    /\ ppc' = "push"
    /\ UNCHANGED <<j, row, file, input_idx, back_idx, output_idx, dirty, chan,
                   cpc, counter, render_data, published, sent, observed, placed>>
    /\ UNCHANGED nonPipeVars

\* for i in 0..row.len() { input.push(row[i]) }: one push per step.
PushPixel ==
    /\ Alive /\ ppc = "push"
    /\ Len(bufs[input_idx]) < Len(row)
    /\ bufs' = [bufs EXCEPT ![input_idx] = Append(@, row[Len(@) + 1])]
    /\ UNCHANGED <<ppc, j, row, file, input_idx, back_idx, output_idx, dirty, chan,
                   cpc, counter, render_data, published, sent, observed, placed>>
    /\ UNCHANGED nonPipeVars

\* buf_input.publish()
PublishRow ==
    /\ Alive /\ ppc = "push"
    /\ Len(bufs[input_idx]) = Len(row)
    /\ SetTB(Publish(TB))
    /\ published' = Append(published, bufs[input_idx])
    /\ ppc' = "send"
    /\ UNCHANGED <<j, row, file, bufs, chan, cpc, counter, render_data, sent,
                   observed, placed>>
    /\ UNCHANGED nonPipeVars

\* sender.send(RenderStatus::Processing).unwrap(), then the loop's next j.
SendProcessing ==
    /\ Alive /\ ppc = "send"
    /\ CanSend(chan)
    /\ chan' = Append(chan, "Processing")
    /\ sent' = Append(sent, "Processing")
    /\ IF LastRow(j)
       THEN /\ ppc' = "finish"
            /\ j' = j
       ELSE /\ ppc' = "render"
            /\ j' = j - 1
    /\ UNCHANGED <<row, file, bufs, input_idx, back_idx, output_idx, dirty,
                   cpc, counter, render_data, published, observed, placed>>
    /\ UNCHANGED nonPipeVars

\* sender.send(RenderStatus::Done).unwrap(); the thread ends.
SendDone ==
    /\ Alive /\ ppc = "finish"
    /\ CanSend(chan)
    /\ chan' = Append(chan, "Done")
    /\ sent' = Append(sent, "Done")
    /\ ppc' = "done"
    /\ UNCHANGED <<j, row, file, bufs, input_idx, back_idx, output_idx, dirty,
                   cpc, counter, render_data, published, observed, placed>>
    /\ UNCHANGED nonPipeVars

Producer == CreateFile \/ RenderRow \/ ClearInput \/ PushPixel \/ PublishRow
            \/ SendProcessing \/ SendDone

\* ------------------------------------------------------------------------
\* Display thread
\* ------------------------------------------------------------------------
\* while window.is_open() && !is_key_down(Escape): the window was closed.
CloseWindow ==
    /\ cpc = "loop"
    /\ cpc' = "exited"
    /\ UNCHANGED <<ppc, j, row, file, bufs, input_idx, back_idx, output_idx, dirty,
                   chan, counter, render_data, published, sent, observed, placed>>
    /\ UNCHANGED nonPipeVars

\* receiver.try_recv() = Err(Empty): window.update().
PollEmpty ==
    /\ cpc = "loop"
    /\ chan = <<>>
    /\ UNCHANGED pipeVars
    /\ UNCHANGED nonPipeVars

\* receiver.try_recv() = Ok(Processing)
PollProcessing ==
    /\ cpc = "loop"
    /\ chan # <<>> /\ Head(chan) = "Processing"
    /\ chan' = Tail(chan)
    /\ cpc' = "update"
    /\ UNCHANGED <<ppc, j, row, file, bufs, input_idx, back_idx, output_idx, dirty,
                   counter, render_data, published, sent, observed, placed>>
    /\ UNCHANGED nonPipeVars

\* receiver.try_recv() = Ok(Done): window.update().
PollDone ==
    /\ cpc = "loop"
    /\ chan # <<>> /\ Head(chan) = "Done"
    /\ chan' = Tail(chan)
    /\ UNCHANGED <<ppc, j, row, file, bufs, input_idx, back_idx, output_idx, dirty,
                   cpc, counter, render_data, published, sent, observed, placed>>
    /\ UNCHANGED nonPipeVars

\* if buf_output.update() { ... }: the consumer's read of the row buffer.
UpdateOutput ==
    /\ cpc = "update"
    /\ LET upd == Update(TB) IN
       /\ SetTB(upd.tb)
       /\ cpc' = IF upd.updated THEN "copy" ELSE "loop"
       /\ observed' = IF upd.updated THEN Append(observed, bufs[upd.tb.output])
                      ELSE observed
    /\ UNCHANGED <<ppc, j, row, file, bufs, chan, counter, render_data,
                   published, sent, placed>>
    /\ UNCHANGED nonPipeVars

\* index = ((HEIGHT - counter - 1) * WIDTH + i) as usize, in u32 arithmetic
\* (the wrapping result; a debug build panics where it wraps).
DisplayRow(c) == HEIGHT - c - 1
Index(c, i) == DisplayRow(c) * WIDTH + i

\* The body of the if: copy the output buffer into the framebuffer at the
\* row given by counter, redraw, counter -= 1.
CopyRow ==
    /\ cpc = "copy"
    /\ LET output == bufs[output_idx] IN
       /\ placed' = Append(placed, DisplayRow(counter))
       /\ IF \A i \in 1..Len(output) : Index(counter, i - 1) \in DOMAIN render_data
          THEN /\ render_data' = [k \in DOMAIN render_data |->
                     IF \E i \in 1..Len(output) : Index(counter, i - 1) = k
                     THEN output[CHOOSE i \in 1..Len(output) : Index(counter, i - 1) = k]
                     ELSE render_data[k]]
               /\ \/ /\ counter > 0
                     /\ counter' = counter - 1
                     /\ cpc' = "loop"
                  \/ /\ counter = 0      \* release build: wraps
                     /\ counter' = U32Max
                     /\ cpc' = "loop"
                  \/ /\ counter = 0      \* debug build: overflow panic
                     /\ counter' = counter
                     /\ cpc' = "panicked"
          ELSE /\ cpc' = "panicked"      \* index out of bounds
               /\ UNCHANGED <<render_data, counter>>
    /\ UNCHANGED <<ppc, j, row, file, bufs, input_idx, back_idx, output_idx, dirty,
                   chan, published, sent, observed>>
    /\ UNCHANGED nonPipeVars

Consumer == CloseWindow \/ PollEmpty \/ PollProcessing \/ PollDone
            \/ UpdateOutput \/ CopyRow

\* ------------------------------------------------------------------------
\* Vector algebra (src/src/vec3.rs) over integer components, and rays
\* ------------------------------------------------------------------------
VSub(a, b) == <<a[1] - b[1], a[2] - b[2], a[3] - b[3]>>
VAdd(a, b) == <<a[1] + b[1], a[2] + b[2], a[3] + b[3]>>
VScale(t, a) == <<t * a[1], t * a[2], t * a[3]>>
\* A dot product whose last term squares the left operand's z (differs
\* from the code).
DotLeftSquared(a, b) == a[1] * b[1] + a[2] * b[2] + a[3] * a[3]
Dot(a, b) == a[1] * b[1] + a[2] * b[2] + a[3] * b[3]
Cross(a, b) == <<a[2] * b[3] - a[3] * b[2],
                 a[3] * b[1] - a[1] * b[3],
                 a[1] * b[2] - a[2] * b[1]>>
Neg(a) == <<-a[1], -a[2], -a[3]>>
LengthSquared(a) == a[1] * a[1] + a[2] * a[2] + a[3] * a[3]

\* Ray::at: origin + t * direction.
RayAt(r, t) == VAdd(r.origin, VScale(t, r.direction))

\* Option<HitRecord>
None == [some |-> FALSE]
Some(rec) == [some |-> TRUE, rec |-> rec]

\* ------------------------------------------------------------------------
\* Sphere::hit (src/src/sphere.rs).  The inputs are chosen so that f64
\* arithmetic is exact on them: integer coordinates, a unit direction
\* (a = 1) and a discriminant that is negative or a perfect square.
\* ------------------------------------------------------------------------
MaxCenter == 3
MaxOffset == 2
MaxRadius == 2
MaxTMin == 2
MaxT == 5

\* f64::sqrt on a perfect square.
IsSquare(n) == \E q \in 0..n : q * q = n
Sqrt(n) == CHOOSE q \in 0..n : q * q = n

\* let oc = r.origin - self.center;
Oc(sp, r) == VSub(r.origin, sp.center)
\* let a = r.direction.length_squared();
QuadA(sp, r) == LengthSquared(r.direction)
\* let half_b = Vec3::dot(oc, r.direction);
HalfB(sp, r) == Dot(Oc(sp, r), r.direction)
\* let c = oc.length_squared() - self.radius * self.radius;
QuadC(sp, r) == LengthSquared(Oc(sp, r)) - sp.radius * sp.radius
\* let discriminant = half_b * half_b - a * c;
Discriminant(sp, r) == HalfB(sp, r) * HalfB(sp, r) - QuadA(sp, r) * QuadC(sp, r)

\* (-half_b - sqrt_discriminant) / a and (-half_b + sqrt_discriminant) / a
SmallRoot(sp, r) == (0 - HalfB(sp, r) - Sqrt(Discriminant(sp, r))) \div QuadA(sp, r)
LargeRoot(sp, r) == (0 - HalfB(sp, r) + Sqrt(Discriminant(sp, r))) \div QuadA(sp, r)

\* root < t_min || t_max < root
OutOfRangeHalfOpen(x, tmin, tmax) == x <= tmin \/ tmax < x
OutOfRange(x, tmin, tmax) == x < tmin \/ tmax < x

\* The HitRecord built at the end of Sphere::hit, after set_face_normal.
\* front_facing is dot(direction, outward_normal) < 0 with outward_normal =
\* (p - center) / radius; the radius is positive, so the sign is that of
\* dot(direction, p - center).  The normal itself is not kept.
HitRecord(sp, r, x) ==
    LET pt == RayAt(r, x) IN
    [p |-> pt, t |-> x, mat |-> sp.material,
     front_facing |-> Dot(r.direction, VSub(pt, sp.center)) < 0]

\* Sphere::hit as a function of its arguments.
SphereHit(sp, r, tmin, tmax) ==
    IF Discriminant(sp, r) < 0 THEN None
    ELSE IF ~OutOfRange(SmallRoot(sp, r), tmin, tmax)
         THEN Some(HitRecord(sp, r, SmallRoot(sp, r)))
    ELSE IF ~OutOfRange(LargeRoot(sp, r), tmin, tmax)
         THEN Some(HitRecord(sp, r, LargeRoot(sp, r)))
    ELSE None

\* The rays and spheres a call is made with.
Rays == {[origin |-> <<0, 0, 0>>, direction |-> <<1, 0, 0>>],
         [origin |-> <<0, 0, 0>>, direction |-> <<0, 1, 0>>]}

Spheres == {sp \in [center : {<<x, y, 0>> : x \in 0..MaxCenter, y \in 0..MaxOffset},
                    radius : 1..MaxRadius,
                    material : {"mat"}] :
              \A r \in Rays : Discriminant(sp, r) < 0 \/ IsSquare(Discriminant(sp, r))}

NoSphere == [center |-> <<0, 0, 0>>, radius |-> 1, material |-> "mat"]
NoRay == [origin |-> <<0, 0, 0>>, direction |-> <<1, 0, 0>>]

SphereIdle ==
    /\ spc = "idle"
    /\ sphere = NoSphere
    /\ s_ray = NoRay
    /\ s_t_min = 0
    /\ s_t_max = 0
    /\ root = 0
    /\ s_result = None

SphereInit ==
    /\ spc = "entry"
    /\ sphere \in Spheres
    /\ s_ray \in Rays
    /\ s_t_min \in 0..MaxTMin
    /\ s_t_max \in s_t_min..MaxT
    /\ root = 0
    /\ s_result = None

\* if discriminant < 0.0 { return None }
SphereNoRoots ==
    /\ spc = "entry"
    /\ Discriminant(sphere, s_ray) < 0
    /\ s_result' = None
    /\ spc' = "returned"
    /\ UNCHANGED <<sphere, s_ray, s_t_min, s_t_max, root>>
    /\ UNCHANGED <<pipeVars, listVars, rayVars, pixelVars, colorVars, vecVars>>

\* let mut root = (-half_b - sqrt_discriminant) / a;
SphereFirstRoot ==
    /\ spc = "entry"
    /\ Discriminant(sphere, s_ray) >= 0
    /\ root' = SmallRoot(sphere, s_ray)
    /\ spc' = "first"
    /\ UNCHANGED <<sphere, s_ray, s_t_min, s_t_max, s_result>>
    /\ UNCHANGED <<pipeVars, listVars, rayVars, pixelVars, colorVars, vecVars>>

\* if root < t_min || t_max < root { root = (-half_b + sqrt_discriminant) / a; ...
SphereSecondRoot ==
    /\ spc = "first"
    /\ OutOfRange(root, s_t_min, s_t_max)
    /\ root' = LargeRoot(sphere, s_ray)
    /\ spc' = "second"
    /\ UNCHANGED <<sphere, s_ray, s_t_min, s_t_max, s_result>>
    /\ UNCHANGED <<pipeVars, listVars, rayVars, pixelVars, colorVars, vecVars>>

\* ... if root < t_min || t_max < root { return None } }
SphereOutOfRange ==
    /\ spc = "second"
    /\ OutOfRange(root, s_t_min, s_t_max)
    /\ s_result' = None
    /\ spc' = "returned"
    /\ UNCHANGED <<sphere, s_ray, s_t_min, s_t_max, root>>
    /\ UNCHANGED <<pipeVars, listVars, rayVars, pixelVars, colorVars, vecVars>>

\* Some(hit_record)
SphereReturnHit ==
    /\ spc \in {"first", "second"}
    /\ ~OutOfRange(root, s_t_min, s_t_max)
    /\ s_result' = Some(HitRecord(sphere, s_ray, root))
    /\ spc' = "returned"
    /\ UNCHANGED <<sphere, s_ray, s_t_min, s_t_max, root>>
    /\ UNCHANGED <<pipeVars, listVars, rayVars, pixelVars, colorVars, vecVars>>

SphereNext == SphereNoRoots \/ SphereFirstRoot \/ SphereSecondRoot
              \/ SphereOutOfRange \/ SphereReturnHit

\* ------------------------------------------------------------------------
\* HittableList::hit (src/src/sphere.rs)
\* ------------------------------------------------------------------------
MaxObjects == 3

\* The children a list is built from (HittableList::add), each with its own
\* material.  Along the ray from the origin in direction x: two spheres
\* entered at the same t = 1, a sphere around the ray's origin, a sphere the
\* ray is tangent to and a sphere the ray misses.
Palette ==
    {[center |-> <<2, 0, 0>>, radius |-> 1, material |-> "lambertian"],
     [center |-> <<3, 0, 0>>, radius |-> 2, material |-> "metal"],
     [center |-> <<1, 0, 0>>, radius |-> 2, material |-> "dielectric"],
     [center |-> <<4, 1, 0>>, radius |-> 1, material |-> "ground"],
     [center |-> <<2, 2, 0>>, radius |-> 1, material |-> "matte"]}

ListRay == [origin |-> <<0, 0, 0>>, direction |-> <<1, 0, 0>>]

SeqsUpTo(S, n) == UNION {[1..m -> S] : m \in 0..n}

\* hittable.hit(r, t_min, closest_so_far)
CandidateNoNarrow(child, r, tmin, tmax, closest) == SphereHit(child, r, tmin, tmax)
Candidate(child, r, tmin, tmax, closest) == SphereHit(child, r, tmin, closest)

\* The body of the for loop, on the locals st = [closest_so_far, hit].
LoopBodyKeepBound(st, child, r, tmin, tmax) ==
    LET candidate_hit == Candidate(child, r, tmin, tmax, st.closest_so_far) IN
    IF candidate_hit.some
    THEN [closest_so_far |-> st.closest_so_far, hit |-> candidate_hit]
    ELSE st
LoopBody(st, child, r, tmin, tmax) ==
    LET candidate_hit == Candidate(child, r, tmin, tmax, st.closest_so_far) IN
    IF candidate_hit.some
    THEN [closest_so_far |-> candidate_hit.rec.t, hit |-> candidate_hit]
    ELSE st

\* HittableList::hit as a function of its arguments: the loop from child k on.
RECURSIVE HitFrom(_, _, _, _, _, _)
HitFrom(objs, k, st, r, tmin, tmax) ==
    IF k > Len(objs) THEN st.hit
    ELSE HitFrom(objs, k + 1, LoopBody(st, objs[k], r, tmin, tmax), r, tmin, tmax)

HitList(objs, r, tmin, tmax) ==
    HitFrom(objs, 1, [closest_so_far |-> tmax, hit |-> None], r, tmin, tmax)

ListIdle ==
    /\ hpc = "idle"
    /\ objects = <<>>
    /\ h_ray = NoRay
    /\ h_t_min = 0
    /\ h_t_max = 0
    /\ hidx = 1
    /\ closest_so_far = 0
    /\ hit = None
    /\ passed = <<>>

\* let mut hit = None; let mut closest_so_far = t_max;
ListInit ==
    /\ hpc = "loop"
    /\ objects \in SeqsUpTo(Palette, MaxObjects)
    /\ h_ray = ListRay
    /\ h_t_min \in 0..MaxTMin
    /\ h_t_max \in h_t_min..MaxT
    /\ hidx = 1
    /\ closest_so_far = h_t_max
    /\ hit = None
    /\ passed = <<>>

Locals == [closest_so_far |-> closest_so_far, hit |-> hit]

\* One iteration in which the child reports a hit.
ListChildHit ==
    /\ hpc = "loop"
    /\ hidx <= Len(objects)
    /\ Candidate(objects[hidx], h_ray, h_t_min, h_t_max, closest_so_far).some
    /\ LET st == LoopBody(Locals, objects[hidx], h_ray, h_t_min, h_t_max) IN
       /\ closest_so_far' = st.closest_so_far
       /\ hit' = st.hit
    /\ passed' = Append(passed, closest_so_far)
    /\ hidx' = hidx + 1
    /\ UNCHANGED <<hpc, objects, h_ray, h_t_min, h_t_max>>
    /\ UNCHANGED <<pipeVars, sphereVars, rayVars, pixelVars, colorVars, vecVars>>

\* One iteration in which the child reports none.
ListChildMiss ==
    /\ hpc = "loop"
    /\ hidx <= Len(objects)
    /\ ~Candidate(objects[hidx], h_ray, h_t_min, h_t_max, closest_so_far).some
    /\ LET st == LoopBody(Locals, objects[hidx], h_ray, h_t_min, h_t_max) IN
       /\ closest_so_far' = st.closest_so_far
       /\ hit' = st.hit
    /\ passed' = Append(passed, closest_so_far)
    /\ hidx' = hidx + 1
    /\ UNCHANGED <<hpc, objects, h_ray, h_t_min, h_t_max>>
    /\ UNCHANGED <<pipeVars, sphereVars, rayVars, pixelVars, colorVars, vecVars>>

\* The iterator is exhausted: hit is returned.
ListReturn ==
    /\ hpc = "loop"
    /\ hidx > Len(objects)
    /\ hpc' = "returned"
    /\ UNCHANGED <<objects, h_ray, h_t_min, h_t_max, hidx, closest_so_far, hit,
                   passed>>
    /\ UNCHANGED <<pipeVars, sphereVars, rayVars, pixelVars, colorVars, vecVars>>

ListNext == ListChildHit \/ ListChildMiss \/ ListReturn

\* ------------------------------------------------------------------------
\* ray_color (src/src/main.rs).  Colours are held in tenths, so that the
\* two ends of the background gradient, (1, 1, 1) and (0.5, 0.7, 1.0), and
\* their products with the attenuations below are integers.
\* ------------------------------------------------------------------------
MaxDepth == 3

\* Vec3::zeros()
Black == <<0, 0, 0>>

\* impl Mul<Vec3> for Vec3: componentwise.
VMul(a, b) == <<a[1] * b[1], a[2] * b[2], a[3] * b[3]>>

\* The attenuations a scatter returns: Vec3::ones() (Dielectric) and albedos
\* with components 0 or 1 (Lambertian, Metal).
Attenuations == {<<1, 1, 1>>, <<1, 0, 0>>, <<0, 1, 1>>}

\* The miss branch: (1.0 - t) * ones + t * (0.5, 0.7, 1.0) with
\* t = 0.5 * (unit_direction.y + 1.0), for unit_direction.y = -1 and 1.
Background(uy) ==
    LET t2 == uy + 1 IN
    <<((2 - t2) * 10 + t2 * 5) \div 2,
      ((2 - t2) * 10 + t2 * 7) \div 2,
      ((2 - t2) * 10 + t2 * 10) \div 2>>

\* if depth <= 0
ExhaustedAtZero(d) == d = 0
Exhausted(d) == d <= 0

\* the depth argument of the recursive call: depth - 1
DeeperSame(d) == d
Deeper(d) == d - 1

RayIdle ==
    /\ rpc = "idle"
    /\ depth0 = 0
    /\ depth = 0
    /\ frames = <<>>
    /\ value = Black
    /\ intersections = 0

RayInit ==
    /\ rpc = "call"
    /\ depth0 \in (0 - 1)..MaxDepth
    /\ depth = depth0
    /\ frames = <<>>
    /\ value = Black
    /\ intersections = 0

\* if depth <= 0 { Vec3::zeros() }
RayExhausted ==
    /\ rpc = "call"
    /\ Exhausted(depth)
    /\ value' = Black
    /\ rpc' = "return"
    /\ UNCHANGED <<depth0, depth, frames, intersections>>
    /\ UNCHANGED <<pipeVars, sphereVars, listVars, pixelVars, colorVars, vecVars>>

\* world.hit(..) is None: the background colour.
RayMiss ==
    /\ rpc = "call"
    /\ ~Exhausted(depth)
    /\ intersections' = intersections + 1
    /\ \E uy \in {0 - 1, 1} : value' = Background(uy)
    /\ rpc' = "return"
    /\ UNCHANGED <<depth0, depth, frames>>
    /\ UNCHANGED <<pipeVars, sphereVars, listVars, pixelVars, colorVars, vecVars>>

\* world.hit(..) is Some(hit) and hit.mat.scatter(..) is None.
RayAbsorbed ==
    /\ rpc = "call"
    /\ ~Exhausted(depth)
    /\ intersections' = intersections + 1
    /\ value' = Black
    /\ rpc' = "return"
    /\ UNCHANGED <<depth0, depth, frames>>
    /\ UNCHANGED <<pipeVars, sphereVars, listVars, pixelVars, colorVars, vecVars>>

\* world.hit(..) is Some(hit) and scatter is Some((attenuation, scattered)):
\* the call is suspended and ray_color(scattered, world, depth - 1) entered.
RayScattered ==
    /\ rpc = "call"
    /\ ~Exhausted(depth)
    /\ intersections' = intersections + 1
    /\ \E attenuation \in Attenuations :
         frames' = Append(frames, [depth |-> depth, attenuation |-> attenuation])
    /\ depth' = Deeper(depth)
    /\ UNCHANGED <<rpc, depth0, value>>
    /\ UNCHANGED <<pipeVars, sphereVars, listVars, pixelVars, colorVars, vecVars>>

\* The recursive call returned: attenuation * ray_color(..) is returned.
RayResume ==
    /\ rpc = "return"
    /\ frames # <<>>
    /\ value' = VMul(frames[Len(frames)].attenuation, value)
    /\ depth' = frames[Len(frames)].depth
    /\ frames' = SubSeq(frames, 1, Len(frames) - 1)
    /\ UNCHANGED <<rpc, depth0, intersections>>
    /\ UNCHANGED <<pipeVars, sphereVars, listVars, pixelVars, colorVars, vecVars>>

\* The top-level call returned.
RayDone ==
    /\ rpc = "return"
    /\ frames = <<>>
    /\ rpc' = "done"
    /\ UNCHANGED <<depth0, depth, frames, value, intersections>>
    /\ UNCHANGED <<pipeVars, sphereVars, listVars, pixelVars, colorVars, vecVars>>

RayNext == RayExhausted \/ RayMiss \/ RayAbsorbed \/ RayScattered \/ RayResume
           \/ RayDone

\* ------------------------------------------------------------------------
\* Pixel sampling of the render loop (src/src/main.rs).  random_f64() draws
\* from [0, 1); the model draws n / JitterDen for n in 0..JitterDen-1 and
\* holds u and v as fractions [num, den].
\* ------------------------------------------------------------------------
SamplesPerPixel == 2
JitterDen == 3

Jitter == 0..(JitterDen - 1)

\* (i as f64 + random_f64()) / ((WIDTH - 1) as f64)
CoordU(i, n) == [num |-> i * JitterDen + n, den |-> (WIDTH - 1) * JitterDen]
\* (j as f64 + random_f64()) / ((HEIGHT - 1) as f64)
CoordV(jj, n) == [num |-> jj * JitterDen + n, den |-> (HEIGHT - 1) * JitterDen]

NoCoord == [num |-> 0, den |-> 1]

PixelIdle ==
    /\ xpc = "idle"
    /\ px_j = 0
    /\ px_i = 0
    /\ sample = 0
    /\ u = NoCoord
    /\ v = NoCoord

\* for (j, row) in ...enumerate().rev(): the first row is j = HEIGHT - 1.
PixelInit ==
    /\ xpc = "pixel"
    /\ px_j = HEIGHT - 1
    /\ px_i = 0
    /\ sample = 0
    /\ u = NoCoord
    /\ v = NoCoord

\* One iteration of for _ in 0..SAMPLES_PER_PIXEL: u, v and camera.get_ray(u, v).
TakeSample ==
    /\ xpc \in {"pixel", "sampled"}
    /\ sample < SamplesPerPixel
    /\ \E nu \in Jitter : u' = CoordU(px_i, nu)
    /\ \E nv \in Jitter : v' = CoordV(px_j, nv)
    /\ sample' = sample + 1
    /\ xpc' = "sampled"
    /\ UNCHANGED <<px_j, px_i>>
    /\ UNCHANGED <<pipeVars, sphereVars, listVars, rayVars, colorVars, vecVars>>

\* *r = set_color(..): the next pixel of the row.
NextPixel ==
    /\ xpc = "sampled"
    /\ sample = SamplesPerPixel
    /\ px_i < WIDTH - 1
    /\ px_i' = px_i + 1
    /\ sample' = 0
    /\ xpc' = "pixel"
    /\ UNCHANGED <<px_j, u, v>>
    /\ UNCHANGED <<pipeVars, sphereVars, listVars, rayVars, colorVars, vecVars>>

\* The row is complete: the next row, or the end of the loop.
NextRow ==
    /\ xpc = "sampled"
    /\ sample = SamplesPerPixel
    /\ px_i = WIDTH - 1
    /\ IF LastRow(px_j)
       THEN /\ xpc' = "end"
            /\ UNCHANGED <<px_j, px_i, sample>>
       ELSE /\ xpc' = "pixel"
            /\ px_j' = px_j - 1
            /\ px_i' = 0
            /\ sample' = 0
    /\ UNCHANGED <<u, v>>
    /\ UNCHANGED <<pipeVars, sphereVars, listVars, rayVars, colorVars, vecVars>>

PixelNext == TakeSample \/ NextPixel \/ NextRow

\* ------------------------------------------------------------------------
\* set_color and clamp (src/src/main.rs).  A colour component is an integer
\* number of 1/ColorDen units, so that color.x * scale is the rational
\* c / (ColorDen * samples).  The square root is never represented: the code
\* only uses it compared against the clamp bounds and truncated after the
\* multiplication by 256, and both are decided exactly on the squares.
\* ------------------------------------------------------------------------
ColorDen == 2

\* clamp(r, 0.0, 0.999): the two bounds, in thousandths.
ClampMin == 0
ClampMax == 999

\* 255 << 24 as a u32, held as its representative modulo 2^32
\* (255 * 2^24 - 2^32), as counter is.
Alpha == -16777216

\* (256.0 * clamp(r, lo, hi)) as u32 for r = (c / (ColorDen * n)).sqrt(),
\* lo and hi in thousandths, 0 <= lo <= hi.
\*   c < 0: the square root is NaN, NaN.max(lo) is lo and lo.min(hi) is lo;
\*   r <= lo and r >= hi are compared on the squares;
\*   otherwise the cast truncates 256 * r to the largest k with
\*   k * k <= 65536 * c / (ColorDen * n).
Quantize(c, n, lo, hi) ==
    IF c < 0 \/ c * 1000000 <= lo * lo * ColorDen * n
    THEN (256 * lo) \div 1000
    ELSE IF c * 1000000 >= hi * hi * ColorDen * n
    THEN (256 * hi) \div 1000
    ELSE CHOOSE k \in 0..256 :
            /\ k * k * ColorDen * n <= 65536 * c
            /\ (k + 1) * (k + 1) * ColorDen * n > 65536 * c

\* The channel with the upper clamp bound at 1.0 (differs from the code).
ChannelClampedAtOne(c, n) == Quantize(c, n, ClampMin, 1000)

\* let ur = (256.0 * clamp(r, 0.0, 0.999)) as u32, likewise ug and ub.
Channel(c, n) == Quantize(c, n, ClampMin, ClampMax)

\* (255 << 24) + (ur << 16) + (ug << 8) + ub on representatives.
Pack(r, g, b) == Alpha + r * 65536 + g * 256 + b

\* The accumulated colours and sample counts set_color is called with:
\* every component from below zero to above one per sample.
Components == (-1)..(SamplesPerPixel * ColorDen + 1)
Colors == Components \X Components \X Components

ColorIdle ==
    /\ kpc = "idle"
    /\ color = <<0, 0, 0>>
    /\ samples = 1
    /\ ur = 0 /\ ug = 0 /\ ub = 0
    /\ word = 0

ColorInit ==
    /\ kpc = "entry"
    /\ color \in Colors
    /\ samples \in 1..SamplesPerPixel
    /\ ur = 0 /\ ug = 0 /\ ub = 0
    /\ word = 0

\* main.rs:160-167: scale, gamma, clamp and truncate the three channels.
ColorChannels ==
    /\ kpc = "entry"
    /\ ur' = Channel(color[1], samples)
    /\ ug' = Channel(color[2], samples)
    /\ ub' = Channel(color[3], samples)
    /\ kpc' = "pack"
    /\ UNCHANGED <<color, samples, word>>
    /\ UNCHANGED <<pipeVars, sphereVars, listVars, rayVars, pixelVars, vecVars>>

\* main.rs:169: the packed word is returned.
ColorPack ==
    /\ kpc = "pack"
    /\ word' = Pack(ur, ug, ub)
    /\ kpc' = "returned"
    /\ UNCHANGED <<color, samples, ur, ug, ub>>
    /\ UNCHANGED <<pipeVars, sphereVars, listVars, rayVars, pixelVars, vecVars>>

ColorNext == ColorChannels \/ ColorPack

\* ------------------------------------------------------------------------
\* Vec3 operations on a pair of vectors (src/src/vec3.rs).  Components are
\* small integers, on which the f64 sums and products are exact.  The
\* square root is not: f64 keeps 53 significant bits, the model keeps
\* FracBits fractional bits and rounds to nearest as f64 does, so that an
\* exact root (of a perfect square) and a rounded one are told apart.
\* ------------------------------------------------------------------------
MaxComp == 1
FracBits == 4

\* One, as a number of 2^-FracBits units.
Unit == 2 ^ FracBits

\* f64::sqrt of the integer n, rounded to the nearest multiple of 1/Unit
\* and given as a number of units.
RoundSqrt(n) ==
    LET scaled == n * Unit * Unit
        below == CHOOSE q \in 0..(n * Unit) :
                    q * q <= scaled /\ (q + 1) * (q + 1) > scaled
    IN  IF scaled - below * below > below THEN below + 1 ELSE below

\* The f64 product of two numbers of units, rounded to the nearest unit.
RoundMul(m, n) == (m * n + Unit \div 2) \div Unit

\* Vec3::length: self.length_squared().sqrt(), in units.
Length(a) == RoundSqrt(LengthSquared(a))

Comps == (-MaxComp)..MaxComp
Vectors == Comps \X Comps \X Comps

NoOutput ==
    [sum_ab |-> <<0, 0, 0>>, sum_ba |-> <<0, 0, 0>>, diff |-> <<0, 0, 0>>,
     prod |-> <<0, 0, 0>>, dot_ab |-> 0, dot_ba |-> 0,
     cross_ab |-> <<0, 0, 0>>, cross_ba |-> <<0, 0, 0>>,
     neg_cross_ba |-> <<0, 0, 0>>,
     length_squared |-> 0, length |-> 0, length_times_length |-> 0]

VecIdle ==
    /\ vpc = "idle"
    /\ va = <<0, 0, 0>>
    /\ vb = <<0, 0, 0>>
    /\ vout = NoOutput

VecInit ==
    /\ vpc = "entry"
    /\ va \in Vectors
    /\ vb \in Vectors
    /\ vout = NoOutput

\* a + b, b + a, a - b, a * b, dot and cross in both orders, and -cross.
VecPairOps ==
    /\ vpc = "entry"
    /\ vout' = [vout EXCEPT !.sum_ab = VAdd(va, vb),
                            !.sum_ba = VAdd(vb, va),
                            !.diff = VSub(va, vb),
                            !.prod = VMul(va, vb),
                            !.dot_ab = Dot(va, vb),
                            !.dot_ba = Dot(vb, va),
                            !.cross_ab = Cross(va, vb),
                            !.cross_ba = Cross(vb, va),
                            !.neg_cross_ba = Neg(Cross(vb, va))]
    /\ vpc' = "lengths"
    /\ UNCHANGED <<va, vb>>
    /\ UNCHANGED <<pipeVars, sphereVars, listVars, rayVars, pixelVars, colorVars>>

\* a.length_squared(), a.length() and a.length() * a.length().
VecLengthOps ==
    /\ vpc = "lengths"
    /\ vout' = [vout EXCEPT !.length_squared = LengthSquared(va),
                            !.length = Length(va),
                            !.length_times_length =
                                RoundMul(Length(va), Length(va))]
    /\ vpc' = "done"
    /\ UNCHANGED <<va, vb>>
    /\ UNCHANGED <<pipeVars, sphereVars, listVars, rayVars, pixelVars, colorVars>>

VecNext == VecPairOps \/ VecLengthOps

\* ------------------------------------------------------------------------
\* Specifications
\* ------------------------------------------------------------------------
\* The render pipeline.
Init == PipeInit /\ SphereIdle /\ ListIdle /\ RayIdle /\ PixelIdle
    /\ ColorIdle /\ VecIdle
Next == Producer \/ Consumer
Spec == Init /\ [][Next]_vars

\* One call of Sphere::hit.
InitSphere == PipeInit /\ SphereInit /\ ListIdle /\ RayIdle /\ PixelIdle
    /\ ColorIdle /\ VecIdle
SpecSphere == InitSphere /\ [][SphereNext]_vars

\* One call of HittableList::hit.
InitList == PipeInit /\ SphereIdle /\ ListInit /\ RayIdle /\ PixelIdle
    /\ ColorIdle /\ VecIdle
SpecList == InitList /\ [][ListNext]_vars

\* One top-level call of ray_color.  The call runs on its own thread of
\* control and nothing suspends it: a step that can be taken is taken.
InitRay == PipeInit /\ SphereIdle /\ ListIdle /\ RayInit /\ PixelIdle
    /\ ColorIdle /\ VecIdle
SpecRay == InitRay /\ [][RayNext]_vars /\ WF_vars(RayNext)

\* The sampling loops of the render thread.
InitPixel == PipeInit /\ SphereIdle /\ ListIdle /\ RayIdle /\ PixelInit
    /\ ColorIdle /\ VecIdle
SpecPixel == InitPixel /\ [][PixelNext]_vars

\* The render pipeline with the window left open and both threads scheduled
\* whenever they can take a step.
ConsumerOpen == PollEmpty \/ PollProcessing \/ PollDone \/ UpdateOutput
                \/ CopyRow
NextOpen == Producer \/ ConsumerOpen
SpecLive == Init /\ [][NextOpen]_vars /\ WF_vars(Producer)
            /\ WF_vars(ConsumerOpen)

\* One call of set_color on any colour and sample count.
InitColor == PipeInit /\ SphereIdle /\ ListIdle /\ RayIdle /\ PixelIdle
    /\ ColorInit /\ VecIdle
SpecColor == InitColor /\ [][ColorNext]_vars

\* The Vec3 operations on any pair of vectors.
InitVec == PipeInit /\ SphereIdle /\ ListIdle /\ RayIdle /\ PixelIdle
    /\ ColorIdle /\ VecInit
SpecVec == InitVec /\ [][VecNext]_vars

\* ------------------------------------------------------------------------
\* Claims about the pipeline (checked under Spec)
\* ------------------------------------------------------------------------
\* Number of Processing messages in a sequence of messages.
NumProcessing(q) == Cardinality({n \in 1..Len(q) : q[n] = "Processing"})

\* C1: if rows R1, R2, R3 are published (each followed by its notification)
\* before the consumer has read the buffer, the consumer's next successful
\* update yields exactly R3, and R1 and R2 are not observed at that read or
\* at any later one.
C1_LatestRowWins ==
    /\ [][(/\ Len(published) = 3 /\ Len(sent) = 3
           /\ observed = <<>> /\ observed' # <<>>)
          => observed' = <<published[3]>>]_vars
    /\ [](\A n \in 1..Len(observed) :
            (Len(published) >= 3 /\ observed[1] = published[3])
            => observed[n] \notin {published[1], published[2]})

\* C1 witness: the consumer's first read happened after three publications
\* and the consumer has read again since.
C1_Witness ==
    /\ Len(published) >= 3
    /\ Len(observed) >= 2
    /\ observed[1] = published[3]

\* C2: the rows the consumer reads are a subsequence of the rows published:
\* each is a complete published row, later than the one read before it, and
\* the row it copies is the row it read.
C2_ObservedIsSubsequence ==
    /\ \A n \in 1..Len(observed) :
         \E k \in 1..Len(published) :
            /\ observed[n] = published[k]
            /\ observed[n] = RenderedRow(HEIGHT - k)
            /\ n > 1 => \E k0 \in 1..(k - 1) : observed[n - 1] = published[k0]
    /\ cpc = "copy" => bufs[output_idx] = observed[Len(observed)]

\* C2 witness: the consumer read row 1, missed row 2 and read row 3.
C2_Witness ==
    /\ Len(published) >= 3
    /\ observed = <<published[1], published[3]>>

\* C3: while the process runs, the render thread's next step is enabled
\* whatever the consumer has done, and so is the display loop's next step
\* whatever the producer is doing.
C3_NeitherSideWaits ==
    Alive => /\ ppc # "done" => ENABLED Producer
             /\ cpc = "loop" => ENABLED (PollEmpty \/ PollProcessing \/ PollDone)
             /\ cpc = "update" => ENABLED UpdateOutput
             /\ cpc = "copy" => ENABLED CopyRow

\* C3 witness: the producer has finished although the consumer never polled.
C3_Witness ==
    /\ ppc = "done"
    /\ cpc = "loop"
    /\ Len(chan) = HEIGHT + 1
    /\ observed = <<>>

\* C4: the k-th Processing message is enqueued only after the k-th row was
\* published, Done is enqueued once, last, after all HEIGHT rows, and the
\* finished thread has enqueued exactly HEIGHT Processing messages and Done.
C4_NotificationsFollowRows ==
    /\ NumProcessing(sent) <= Len(published)
    /\ Len(published) <= NumProcessing(sent) + 1
    /\ \A n \in 1..Len(sent) :
         sent[n] = "Done" => /\ n = Len(sent)
                             /\ n = HEIGHT + 1
                             /\ Len(published) = HEIGHT
    /\ ppc = "done" => sent = [n \in 1..(HEIGHT + 1) |->
                                 IF n <= HEIGHT THEN "Processing" ELSE "Done"]

\* C4 witness: the render thread has finished.
C4_Witness ==
    /\ ppc = "done"
    /\ Len(sent) = HEIGHT + 1

\* C5 (as claimed): once the file exists it holds the header and the pixel
\* lines of the rows completed so far, and all WIDTH * HEIGHT pixel lines
\* when Done is enqueued.
C5_FileHoldsCompletedRows ==
    /\ file # <<>> =>
         \/ Len(file) = 1 + WIDTH * Len(published)
         \/ Len(file) = 1 + WIDTH * (Len(published) + 1)
    /\ (sent # <<>> /\ sent[Len(sent)] = "Done") =>
         Len(file) = 1 + WIDTH * HEIGHT

\* ------------------------------------------------------------------------
\* Claims about Sphere::hit (checked under SpecSphere)
\* ------------------------------------------------------------------------
\* The roots of the quadratic that lie in a set of parameters.
RootsIn(sp, r, S) == {x \in {SmallRoot(sp, r), LargeRoot(sp, r)} : x \in S}
MinOf(S) == CHOOSE x \in S : \A y \in S : x <= y

\* C8 (as claimed): Sphere::hit returns a hit exactly when a root lies in
\* (t_min, t_max], t_min excluded, and then t is the smallest such root; it
\* returns none when the discriminant is negative or no root lies there.
C8_HalfOpenRange ==
    spc = "returned" =>
        IF Discriminant(sphere, s_ray) < 0 THEN s_result = None
        ELSE LET inside == RootsIn(sphere, s_ray, (s_t_min + 1)..s_t_max) IN
             IF inside = {} THEN s_result = None
             ELSE s_result.some /\ s_result.rec.t = MinOf(inside)

\* C8 (amended): the same with the closed interval [t_min, t_max].
C8_ClosedRange ==
    spc = "returned" =>
        IF Discriminant(sphere, s_ray) < 0 THEN s_result = None
        ELSE LET inside == RootsIn(sphere, s_ray, s_t_min..s_t_max) IN
             IF inside = {} THEN s_result = None
             ELSE s_result.some /\ s_result.rec.t = MinOf(inside)

\* C8 witness: the smaller root equals t_min, the larger one lies inside the
\* range too, and the call returned the smaller one.
C8_Witness ==
    /\ spc = "returned"
    /\ Discriminant(sphere, s_ray) > 0
    /\ SmallRoot(sphere, s_ray) = s_t_min
    /\ LargeRoot(sphere, s_ray) <= s_t_max
    /\ s_result.some /\ s_result.rec.t = s_t_min

\* ------------------------------------------------------------------------
\* Claims about HittableList::hit (checked under SpecList)
\* ------------------------------------------------------------------------
\* The t each child reports for the original range [t_min, t_max].
ChildTs(objs, r, tmin, tmax) ==
    {SphereHit(objs[k], r, tmin, tmax).rec.t :
        k \in {n \in 1..Len(objs) : SphereHit(objs[n], r, tmin, tmax).some}}

\* The positions of the children that report t for the original range.
ChildrenAt(objs, r, tmin, tmax, t) ==
    {k \in 1..Len(objs) : /\ SphereHit(objs[k], r, tmin, tmax).some
                          /\ SphereHit(objs[k], r, tmin, tmax).rec.t = t}

\* Every insertion order of the same children.
Orders(objs) ==
    {[i \in 1..Len(objs) |-> objs[f[i]]] :
        f \in {g \in [1..Len(objs) -> 1..Len(objs)] :
                 \A a, b \in 1..Len(objs) : a # b => g[a] # g[b]}}

\* C6: HittableList::hit returns none exactly when no child has a hit in
\* [t_min, t_max]; otherwise it returns a hit whose t is the minimum of the
\* t the children report for [t_min, t_max]; the bound passed to the
\* children starts at t_max and never increases.
C6_ClosestHit ==
    /\ \A n \in 1..Len(passed) :
         /\ n = 1 => passed[n] = h_t_max
         /\ n > 1 => passed[n] <= passed[n - 1]
    /\ hpc = "returned" =>
         LET ts == ChildTs(objects, h_ray, h_t_min, h_t_max) IN
         IF ts = {} THEN hit = None
         ELSE hit.some /\ hit.rec.t = MinOf(ts)

\* C6 witness: three children were tried, the bound was narrowed twice and
\* the last child tried was rejected.
C6_Witness ==
    /\ hpc = "returned"
    /\ Len(passed) = 3
    /\ passed[2] < passed[1]
    /\ passed[3] < passed[2]
    /\ hit.some /\ hit.rec.t = passed[3]
    /\ Cardinality(ChildTs(objects, h_ray, h_t_min, h_t_max)) >= 2

\* C7 (as claimed): the hit record returned is the same for every insertion
\* order of the same children, also when two children report equal t.
C7_SameRecordInEveryOrder ==
    hpc = "returned" =>
        \A q \in Orders(objects) : HitList(q, h_ray, h_t_min, h_t_max) = hit

\* C7 (amended): in every insertion order the call returns none or a hit
\* alike, with the same t; the record is the same whenever one child alone
\* reports that t; and among children reporting that t the last inserted
\* one is returned.
C7_SameTInEveryOrder ==
    hpc = "returned" =>
        /\ \A q \in Orders(objects) :
             LET other == HitList(q, h_ray, h_t_min, h_t_max) IN
             /\ other.some = hit.some
             /\ hit.some =>
                  /\ other.rec.t = hit.rec.t
                  /\ Cardinality(ChildrenAt(objects, h_ray, h_t_min, h_t_max,
                                            hit.rec.t)) = 1
                     => other = hit
        /\ hit.some =>
             LET at == ChildrenAt(objects, h_ray, h_t_min, h_t_max, hit.rec.t) IN
             /\ at # {}
             /\ hit.rec.mat = objects[CHOOSE k \in at : \A m \in at : m <= k].material

\* C7 witness: three children report three different t, the closest one was
\* inserted first and the farthest one last.
C7_Witness ==
    /\ hpc = "returned"
    /\ Len(objects) = 3
    /\ \A k \in 1..3 : SphereHit(objects[k], h_ray, h_t_min, h_t_max).some
    /\ SphereHit(objects[1], h_ray, h_t_min, h_t_max).rec.t
         < SphereHit(objects[2], h_ray, h_t_min, h_t_max).rec.t
    /\ SphereHit(objects[2], h_ray, h_t_min, h_t_max).rec.t
         < SphereHit(objects[3], h_ray, h_t_min, h_t_max).rec.t
    /\ hit.some /\ hit.rec.mat = objects[1].material

\* ------------------------------------------------------------------------
\* Claims about ray_color (checked under SpecRay)
\* ------------------------------------------------------------------------
Max(a, b) == IF a >= b THEN a ELSE b

\* C9: ray_color terminates for every depth and every sequence of hit, miss,
\* scatter and absorb outcomes; each recursive call has depth one less than
\* its caller; at most max(d, 0) calls are nested; a call with depth <= 0
\* returns black without intersecting the scene or recursing.
C9_DepthBoundsRecursion ==
    /\ <>(rpc = "done")
    /\ [](/\ Len(frames) <= Max(depth0, 0)
          /\ intersections <= Max(depth0, 0)
          /\ \A n \in 1..Len(frames) :
               /\ n = 1 => frames[n].depth = depth0
               /\ n > 1 => frames[n].depth = frames[n - 1].depth - 1
          /\ frames # <<>> /\ rpc = "call" =>
               depth = frames[Len(frames)].depth - 1)
    /\ [][(rpc = "call" /\ depth <= 0)
          => /\ rpc' = "return"
             /\ value' = Black
             /\ intersections' = intersections
             /\ frames' = frames]_vars

\* C9 witness: every call down to depth 0 scattered, and the call with
\* depth 0 returned black.
C9_Witness ==
    /\ rpc = "return"
    /\ depth0 = MaxDepth
    /\ depth = 0
    /\ Len(frames) = MaxDepth
    /\ intersections = MaxDepth
    /\ value = Black

\* ------------------------------------------------------------------------
\* Claims about the pixel sampling (checked under SpecPixel)
\* ------------------------------------------------------------------------
\* C10 (as claimed): the coordinates passed to Camera::get_ray satisfy
\* 0 <= s <= 1 and 0 <= t <= 1.
C10_CoordinatesInUnitSquare ==
    xpc = "sampled" =>
        /\ 0 <= u.num /\ u.num <= u.den
        /\ 0 <= v.num /\ v.num <= v.den

\* ------------------------------------------------------------------------
\* Claims about set_color (checked under SpecColor)
\* ------------------------------------------------------------------------
\* Byte k (0 = least significant) of a u32 given by its representative.
Byte(w, k) == (w \div (256 ^ k)) % 256

\* Radiance 1 per sample in every channel, accumulated over n samples.
White(n) == <<n * ColorDen, n * ColorDen, n * ColorDen>>

\* C11: for every accumulated colour and sample count, the word set_color
\* returns has 0xFF in byte 3, the red channel in byte 2, the green channel
\* in byte 1 and the blue channel in byte 0; each channel is in 0..255, so
\* the sum stays within 32 bits; zero radiance packs to (0, 0, 0) and
\* radiance 1 per sample in every channel packs to (255, 255, 255).
C11_PackedWord ==
    kpc = "returned" =>
        /\ ur \in 0..255 /\ ug \in 0..255 /\ ub \in 0..255
        /\ word <= U32Max
        /\ Byte(word, 3) = 255
        /\ Byte(word, 2) = ur
        /\ Byte(word, 1) = ug
        /\ Byte(word, 0) = ub
        /\ color = <<0, 0, 0>> => <<ur, ug, ub>> = <<0, 0, 0>>
        /\ color = White(samples) => <<ur, ug, ub>> = <<255, 255, 255>>

\* set_color has returned the word of a mid-grey, a black and a white
\* channel: the three bytes differ and the top byte is 0xFF.
C11_Witness ==
    /\ kpc = "returned"
    /\ samples = SamplesPerPixel
    /\ color = <<samples * ColorDen, 0, 1>>
    /\ Byte(word, 2) = 255
    /\ Byte(word, 1) = 0
    /\ Byte(word, 0) \in 1..254
    /\ Byte(word, 3) = 255

\* ------------------------------------------------------------------------
\* Claims about Vec3 (checked under SpecVec)
\* ------------------------------------------------------------------------
\* The relations between the results that involve no square root.
ExactAlgebra ==
    /\ vout.sum_ab = vout.sum_ba
    /\ vout.dot_ab = vout.dot_ba
    /\ vout.cross_ab = vout.neg_cross_ba
    /\ vout.length_squared = va[1] * va[1] + va[2] * va[2] + va[3] * va[3]
    /\ \A i \in 1..3 :
        /\ vout.sum_ab[i] = va[i] + vb[i]
        /\ vout.diff[i] = va[i] - vb[i]
        /\ vout.prod[i] = va[i] * vb[i]

\* length(a) * length(a) is length_squared(a), both in units.
LengthSquares == vout.length_times_length = vout.length_squared * Unit

\* C12 as stated: for all vectors a, b with bounded integer components,
\* a + b = b + a, dot(a, b) = dot(b, a), cross(a, b) = -cross(b, a),
\* length_squared(a) = a.x*a.x + a.y*a.y + a.z*a.z = length(a) squared,
\* and +, -, * combine corresponding components only.
C12_VectorAlgebra ==
    vpc = "done" => ExactAlgebra /\ LengthSquares

\* C12 as amended: the same, with length(a) squared equal to
\* length_squared(a) whenever length_squared(a) is a perfect square, the
\* case in which the square root is exact.
C12_VectorAlgebraExactRoot ==
    vpc = "done" =>
        /\ ExactAlgebra
        /\ IsSquare(vout.length_squared) => LengthSquares

\* All operations evaluated on two vectors that are neither parallel nor
\* orthogonal, the first of length 1.
C12_Witness ==
    /\ vpc = "done"
    /\ vout.cross_ab # <<0, 0, 0>>
    /\ vout.dot_ab # 0
    /\ vout.sum_ab # vout.diff
    /\ vout.length_squared = 1
    /\ vout.length = Unit

\* ------------------------------------------------------------------------
\* Further claims about the pipeline (checked under Spec)
\* ------------------------------------------------------------------------
\* C13: every row the consumer copies into its framebuffer is stored at the
\* display row equal to the row's position in production order (the k-th
\* row published, counting from 0, goes to display row k), also when the
\* consumer skipped earlier rows.
C13_RowAtProductionPosition ==
    \A n \in 1..Len(placed) :
        \A k \in 1..Len(published) :
            published[k] = observed[n] => placed[n] = k - 1

\* C14: the consumer's u32 row counter, HEIGHT - 1 at first and decremented
\* after each copied row, never underflows: it is never decremented at 0,
\* which wraps it in a release build and panics in a debug build.
C14_CounterNeverUnderflows ==
    /\ counter \in 0..(HEIGHT - 1)
    /\ cpc # "panicked"

\* ------------------------------------------------------------------------
\* Claims about progress (checked under SpecLive)
\* ------------------------------------------------------------------------
\* The consumer has taken Done from the channel: Done is the last message
\* sent and nothing is left in flight.
DoneReceived ==
    /\ sent # <<>>
    /\ sent[Len(sent)] = "Done"
    /\ chan = <<>>

\* The consumer has taken the last of the HEIGHT row-ready notifications
\* from the channel and is past the update() it answers it with.
LastNotificationHandled ==
    /\ NumProcessing(sent) = HEIGHT
    /\ NumProcessing(chan) = 0
    /\ cpc # "update"

\* The last row the consumer read is the last row the producer published.
LastRowRead ==
    /\ observed # <<>>
    /\ published # <<>>
    /\ observed[Len(observed)] = published[Len(published)]

\* C15: with the window open and both threads scheduled (weak fairness),
\* the consumer eventually receives Done, and once it has handled the last
\* row-ready notification it has read the last row the producer published.
C15_DoneReceivedLastRowRead ==
    /\ <>DoneReceived
    /\ [](LastNotificationHandled => LastRowRead)


====
